---- MODULE Spec2Model ----
(***************************************************************************)
(* Model of jira-obsidian-sync (src/src/main.rs): the rich-text extractor, *)
(* the note writer that keeps the text after the sentinel, the Kanban      *)
(* board generator and the control flow of main.                           *)
(*                                                                         *)
(* Text is a sequence of one-character strings, so that substring search,  *)
(* trimming, concatenation and byte-wise comparison are computed, not     *)
(* assumed.  Option<T> is <<>> (None) or <<x>> (Some(x)).                  *)
(***************************************************************************)
EXTENDS Integers, Sequences, FiniteSets, TLC

VARIABLES
    dir_exists,   \* the directory <vault>/Jira Tickets exists
    notes,        \* file system: issue key -> Option(content of <key>.md)
    board,        \* file system: Option(content of "My Jira Board.md")
    pc,           \* position of main: idle, fetch, sync, board, done, failed
    err,          \* stage whose error ended the run ("" when none)
    issues,       \* Vec<JiraIssue> returned by fetch_issues in this run
    idx,          \* index of the issue the for loop of main is at
    runs,         \* number of runs of main started so far
    pre,          \* history: notes and board as they were when the run started
    last,         \* history: Option(record of the update_issue_file that just returned)
    clean,        \* history: key -> Option(issue of its latest sync, if not edited since)
    desc_in,      \* extraction check: Option(Option<JiraADF>) under test
    desc_out      \* extraction check: Option(description text computed)

vars == <<dir_exists, notes, board, pc, err, issues, idx, runs, pre, last, clean,
          desc_in, desc_out>>

None == <<>>
Some(x) == <<x>>

----------------------------------------------------------------------------
(* Bounds of the model *)

\* runs of main in one behaviour
MaxRuns == 2
\* nodes of a rich-text document in the extraction check
MaxNodes == 4

----------------------------------------------------------------------------
(* Text *)

RECURSIVE Cat(_)
\* format!: the pieces of a format string and its arguments, concatenated
Cat(parts) == IF parts = <<>> THEN <<>> ELSE Head(parts) \o Cat(Tail(parts))

SetMin(S) == CHOOSE x \in S : \A y \in S : x <= y
SetMax(S) == CHOOSE x \in S : \A y \in S : x >= y

\* p occurs in s starting at position i
starts_with_at(s, p, i) ==
    /\ i >= 1
    /\ i + Len(p) - 1 <= Len(s)
    /\ \A j \in 1..Len(p) : s[i + j - 1] = p[j]

\* the start positions of the occurrences of p in s
occurrences(s, p) == {i \in 1..(Len(s) - Len(p) + 1) : starts_with_at(s, p, i)}

\* str::find: position of the first occurrence of p in s, 0 for none
find(s, p) ==
    LET hits == occurrences(s, p)
    IN  IF hits = {} THEN 0 ELSE SetMin(hits)

\* str::split_once: Some(<<before, after>>) around the first occurrence of p
split_once(s, p) ==
    LET at == find(s, p)
    IN  IF at = 0
        THEN None
        ELSE Some(<<SubSeq(s, 1, at - 1), SubSeq(s, at + Len(p), Len(s))>>)

\* char::is_whitespace on the characters the model uses
is_whitespace(c) == c \in {" ", "\n", "\t", "\r"}

\* str::trim: leading and trailing whitespace removed
trim(s) ==
    LET keep == {i \in 1..Len(s) : ~is_whitespace(s[i])}
    IN  IF keep = {} THEN <<>> ELSE SubSeq(s, SetMin(keep), SetMax(keep))

\* the ASCII characters of codes 32 to 95, in code order
AsciiFrom32 == <<" ","!","\"","#","$","%","&","'","(",")","*","+",",","-",".","/","0","1","2","3","4","5","6","7","8","9",":",";","<","=",">","?","@","A","B","C","D","E","F","G","H","I","J","K","L","M","N","O","P","Q","R","S","T","U","V","W","X","Y","Z","[","\\","]","^","_">>

\* the ASCII characters of codes 97 to 126, in code order
AsciiFrom97 == <<"a","b","c","d","e","f","g","h","i","j","k","l","m","n","o","p","q","r","s","t","u","v","w","x","y","z","{","|","}","~">>

\* the byte of a printable ASCII character (code 96 is not used)
byte(c) ==
    IF \E i \in 1..Len(AsciiFrom32) : AsciiFrom32[i] = c
    THEN 31 + (CHOOSE i \in 1..Len(AsciiFrom32) : AsciiFrom32[i] = c)
    ELSE 96 + (CHOOSE i \in 1..Len(AsciiFrom97) : AsciiFrom97[i] = c)

\* Ord for String: byte-wise lexicographic, a proper prefix is smaller
str_lt(a, b) ==
    \E i \in 1..(Len(b)) :
        /\ i <= Len(a) + 1
        /\ \A j \in 1..(i - 1) : a[j] = b[j]
        /\ (i = Len(a) + 1 \/ byte(a[i]) < byte(b[i]))

----------------------------------------------------------------------------
(* String literals of the source *)

\* "%% USER_NOTES_START %%"
safe_area_delimiter == <<"%","%"," ","U","S","E","R","_","N","O","T","E","S","_","S","T","A","R","T"," ","%","%">>
\* "\n- [ ] "
default_user_notes == <<"\n","-"," ","["," ","]"," ">>
\* "No description provided."
no_description_provided == <<"N","o"," ","d","e","s","c","r","i","p","t","i","o","n"," ","p","r","o","v","i","d","e","d",".">>
\* "No description."
no_description == <<"N","o"," ","d","e","s","c","r","i","p","t","i","o","n",".">>
\* "None"
priority_none == <<"N","o","n","e">>
\* "---\njira_key: "
fm_jira_key == <<"-","-","-","\n","j","i","r","a","_","k","e","y",":"," ">>
\* "\njira_status: \""
fm_jira_status == <<"\n","j","i","r","a","_","s","t","a","t","u","s",":"," ","\"">>
\* "\"\njira_url: "
fm_jira_url == <<"\"","\n","j","i","r","a","_","u","r","l",":"," ">>
\* "\ncreated_at: "
fm_created_at == <<"\n","c","r","e","a","t","e","d","_","a","t",":"," ">>
\* "\n---\n"
fm_end == <<"\n","-","-","-","\n">>
\* "https://"
url_scheme == <<"h","t","t","p","s",":","/","/">>
\* "/browse/"
url_browse == <<"/","b","r","o","w","s","e","/">>
\* "# "
body_h1 == <<"#"," ">>
\* " "
body_space == <<" ">>
\* "\n\n**Type**: "
body_type == <<"\n","\n","*","*","T","y","p","e","*","*",":"," ">>
\* "\n**Priority**: "
body_priority == <<"\n","*","*","P","r","i","o","r","i","t","y","*","*",":"," ">>
\* "\n**Status**: "
body_status == <<"\n","*","*","S","t","a","t","u","s","*","*",":"," ">>
\* "\n\n## Description\n"
body_description == <<"\n","\n","#","#"," ","D","e","s","c","r","i","p","t","i","o","n","\n">>
\* "\n\n"
body_gap == <<"\n","\n">>
\* "\n"
body_newline == <<"\n">>
\* "---\nkanban-plugin: basic\n---\n\n"
board_header == <<"-","-","-","\n","k","a","n","b","a","n","-","p","l","u","g","i","n",":"," ","b","a","s","i","c","\n","-","-","-","\n","\n">>
\* "## "
board_h2 == <<"#","#"," ">>
\* "- [ ] [[Jira Tickets/"
board_item == <<"-"," ","["," ","]"," ","[","[","J","i","r","a"," ","T","i","c","k","e","t","s","/">>
\* "]]\n"
board_item_end == <<"]","]","\n">>

----------------------------------------------------------------------------
(* Rich-text extraction *)

\* JiraADFNode { node_type, content, text }
JiraADFNode(node_type, content, text) ==
    [node_type |-> node_type, content |-> content, text |-> text]

\* JiraADF { content }
JiraADF(content) == [content |-> content]

\* the suffix pushed after a node's children, one newline where the source
\* pushes two for a paragraph
block_suffix_single_newline(node_type) ==
    CASE node_type = "paragraph" -> <<"\n">>
      [] node_type \in {"bulletList", "orderedList"} -> <<"\n">>
      [] node_type = "listItem" -> <<"\n", "-", " ">>
      [] OTHER -> <<>>

\* match node.node_type.as_str(): what is pushed after a node's children
block_suffix(node_type) ==
    CASE node_type = "paragraph" -> <<"\n", "\n">>
      [] node_type \in {"bulletList", "orderedList"} -> <<"\n">>
      [] node_type = "listItem" -> <<"\n", "-", " ">>
      [] OTHER -> <<>>

RECURSIVE extract_text_from_node(_, _)
RECURSIVE extract_children(_, _)

\* for child in content { extract_text_from_node(child, out) }
extract_children(content, out) ==
    IF content = <<>>
    THEN out
    ELSE extract_children(Tail(content), extract_text_from_node(Head(content), out))

\* extract_text_from_node(node, &mut out): the value of out on return
extract_text_from_node(node, out) ==
    LET with_text == IF node.text # None THEN out \o node.text[1] ELSE out
        with_children ==
            IF node.content # None
            THEN extract_children(node.content[1], with_text)
            ELSE with_text
    IN  with_children \o block_suffix(node.node_type)

RECURSIVE extract_top_level(_, _)
\* for node in content { extract_text_from_node(node, &mut out); out.push('\n') }
extract_top_level(content, out) ==
    IF content = <<>>
    THEN out
    ELSE extract_top_level(Tail(content),
                           extract_text_from_node(Head(content), out) \o <<"\n">>)

\* extract_text_from_adf(adf)
extract_text_from_adf(adf) ==
    LET out == IF adf.content # None
               THEN extract_top_level(adf.content[1], <<>>)
               ELSE <<>>
    IN  IF trim(out) = <<>> THEN no_description_provided ELSE trim(out)

\* let description = ... in update_issue_file, from issue.fields.description
description_text(description) ==
    IF description # None
    THEN extract_text_from_adf(description[1])
    ELSE no_description

----------------------------------------------------------------------------
(* Rich-text documents of the extraction check *)

\* "Hello "
Hello == <<"H","e","l","l","o"," ">>
\* "World"
World == <<"W","o","r","l","d">>

Texts == {Hello, World}

\* node kinds of blocks: the four the extractor knows, and one it does not
BlockKinds == {"paragraph", "bulletList", "orderedList", "listItem", "heading"}

TextLeaves == {JiraADFNode("text", None, Some(t)) : t \in Texts}

\* an empty node of each block kind
EmptyBlocks == {JiraADFNode(k, Some(<<>>), None) : k \in BlockKinds}

\* the nodes a document can be grown by at depth d: blocks at the top level, as
\* in the tracker's documents, blocks and text leaves below
NewNodes(d) == IF d = 0 THEN EmptyBlocks ELSE EmptyBlocks \cup TextLeaves

RECURSIVE node_count(_)
\* the number of nodes in a sequence of rich-text trees
node_count(content) ==
    IF content = <<>>
    THEN 0
    ELSE 1 + (IF Head(content).content # None
              THEN node_count(Head(content).content[1])
              ELSE 0)
           + node_count(Tail(content))

RECURSIVE spine_depth(_)
\* how many nested last children of a sequence of trees can take a child
spine_depth(content) ==
    IF content = <<>> \/ content[Len(content)].content = None
    THEN 0
    ELSE 1 + spine_depth(content[Len(content)].content[1])

RECURSIVE append_at(_, _, _)
\* content with node appended d levels down its last children: every
\* document is reached, in document order, by such appends
append_at(content, d, node) ==
    IF d = 0
    THEN Append(content, node)
    ELSE [content EXCEPT ![Len(content)].content =
              Some(append_at(content[Len(content)].content[1], d - 1, node))]

\* Option<JiraADF> before any node: absent, a document without content, a
\* document with empty content
EmptyDescriptions == {None, Some(JiraADF(None)), Some(JiraADF(Some(<<>>)))}

----------------------------------------------------------------------------
(* The note writer *)

\* Config { jira_host, .. }: the host the run is configured with ("j.io")
config == [jira_host |-> <<"j",".","i","o">>]

\* user_notes, with the preserved text trimmed
user_notes_trimmed(existing) ==
    LET split == split_once(existing[1], safe_area_delimiter)
    IN  IF existing # None /\ split # None
        THEN trim(split[1][2])
        ELSE default_user_notes

\* user_notes, with a file that lacks the delimiter kept whole
user_notes_keep_all(existing) ==
    LET split == split_once(existing[1], safe_area_delimiter)
    IN  IF existing # None
        THEN IF split # None THEN split[1][2] ELSE existing[1]
        ELSE default_user_notes

\* user_notes of update_issue_file: the default, or the text after the first
\* delimiter of the file that exists
user_notes(existing) ==
    LET split == split_once(existing[1], safe_area_delimiter)
    IN  IF existing # None /\ split # None
        THEN split[1][2]
        ELSE default_user_notes

\* jira_url of update_issue_file
jira_url(issue) == Cat(<<url_scheme, config.jira_host, url_browse, issue.key>>)

\* frontmatter of update_issue_file
frontmatter(issue) ==
    Cat(<<fm_jira_key, issue.key,
          fm_jira_status, issue.fields.status.name,
          fm_jira_url, jira_url(issue),
          fm_created_at, issue.fields.created,
          fm_end>>)

\* issue.fields.priority.as_ref().map(|p| p.name.as_str()).unwrap_or("None")
priority_name(issue) ==
    IF issue.fields.priority # None
    THEN issue.fields.priority[1].name
    ELSE priority_none

\* body of update_issue_file, up to the argument that is the delimiter
body_head(issue) ==
    Cat(<<body_h1, issue.key, body_space, issue.fields.summary,
          body_type, issue.fields.issue_type.name,
          body_priority, priority_name(issue),
          body_status, issue.fields.status.name,
          body_description, description_text(issue.fields.description),
          body_gap>>)

\* body of update_issue_file: "...{}\n\n{}\n{}" ends with the delimiter, a
\* newline and the user notes
body(issue, notes_text) ==
    Cat(<<body_head(issue), safe_area_delimiter, body_newline, notes_text>>)

\* full_content of update_issue_file, given the file found at file_path
full_content(existing, issue) ==
    frontmatter(issue) \o body(issue, user_notes(existing))

----------------------------------------------------------------------------
(* The board *)

\* the status names that are keys of issues_by_status
status_keys(list) == {list[i].fields.status.name : i \in 1..Len(list)}

\* issues_by_status.get(&status): the issues of a status, in input order
issues_in_status(list, status) ==
    LET has_status(issue) == issue.fields.status.name = status
    IN  SelectSeq(list, has_status)

RECURSIVE seq_of(_)
\* keys().cloned().collect(): the keys of the map in some order
seq_of(S) ==
    IF S = {} THEN <<>> ELSE LET x == CHOOSE y \in S : TRUE
                             IN  <<x>> \o seq_of(S \ {x})

RECURSIVE first_seen(_, _)
\* the statuses in the order the issues first show them
first_seen(list, seen) ==
    IF list = <<>>
    THEN <<>>
    ELSE IF Head(list).fields.status.name \in seen
         THEN first_seen(Tail(list), seen)
         ELSE <<Head(list).fields.status.name>>
              \o first_seen(Tail(list), seen \cup {Head(list).fields.status.name})

\* statuses without the sort: in the order the issues first show them
statuses_unsorted(list) == first_seen(list, {})

\* statuses of generate_kanban_board: the keys, sorted as Strings
statuses(list) == SortSeq(seq_of(status_keys(list)), str_lt)

RECURSIVE board_items(_)
\* one "- [ ] [[Jira Tickets/<key>]]\n" per issue of a status
board_items(list) ==
    IF list = <<>>
    THEN <<>>
    ELSE Cat(<<board_item, Head(list).key, board_item_end>>) \o board_items(Tail(list))

RECURSIVE board_sections(_, _)
\* for status in statuses: the heading, the items and an empty line
board_sections(list, names) ==
    IF names = <<>>
    THEN <<>>
    ELSE Cat(<<board_h2, Head(names), body_gap,
               board_items(issues_in_status(list, Head(names))),
               body_newline>>)
         \o board_sections(list, Tail(names))

\* board_content of generate_kanban_board
board_content(list) == board_header \o board_sections(list, statuses(list))

----------------------------------------------------------------------------
(* The tracker's responses *)

\* "A-1"
KeyA == <<"A","-","1">>
\* "B-2"
KeyB == <<"B","-","2">>

Keys == {KeyA, KeyB}

\* "To Do"
ToDo == <<"T","o"," ","D","o">>
\* "Done"
Done == <<"D","o","n","e">>
\* "In Progress"
InProgress == <<"I","n"," ","P","r","o","g","r","e","s","s">>

\* a status of the tracker's JSON: its name and its statusCategory key
RawStatus(name, category) == [name |-> name, statusCategory |-> [key |-> category]]

\* an issue of the tracker's JSON
RawIssue(key, summary, description, status, priority, issuetype) ==
    [key |-> key,
     fields |-> [summary |-> summary, description |-> description,
                 status |-> status, created |-> <<"2","0","2","4">>,
                 priority |-> priority, issuetype |-> [name |-> issuetype]]]

\* a description of one paragraph with the text leaves given
Paragraph(texts) ==
    JiraADFNode("paragraph",
                Some([i \in 1..Len(texts) |-> JiraADFNode("text", None, Some(texts[i]))]),
                None)

\* the issues the tracker can return: each key in two versions; one
\* description quotes the delimiter of the notes
ResponsePool ==
    {RawIssue(KeyA, <<"F","i","x">>, Some(JiraADF(Some(<<Paragraph(<<Hello, World>>)>>))),
              RawStatus(ToDo, "new"), Some([name |-> <<"H","i","g","h">>]), <<"T","a","s","k">>),
     RawIssue(KeyA, <<"F","i","x">>, None,
              RawStatus(Done, "done"), None, <<"T","a","s","k">>),
     RawIssue(KeyB, <<"A","d","d">>, Some(JiraADF(Some(<<Paragraph(<<safe_area_delimiter>>)>>))),
              RawStatus(Done, "done"), None, <<"B","u","g">>),
     RawIssue(KeyB, <<"A","d","d">>, Some(JiraADF(Some(<<>>))),
              RawStatus(InProgress, "indeterminate"), None, <<"B","u","g">>)}

\* the search responses: issue lists with no key twice, of none, one or two
\* issues (of two, the one of key "A-1" first)
Responses ==
    {<<>>}
    \cup {<<r>> : r \in ResponsePool}
    \cup {pair \in {<<r1, r2>> : r1 \in ResponsePool, r2 \in ResponsePool} :
              pair[1].key = KeyA /\ pair[2].key = KeyB}

\* #[derive(Deserialize)] JiraIssue: the fields the structs declare, the
\* statusCategory of the JSON is dropped
deserialize_issue(raw) ==
    [key |-> raw.key,
     fields |-> [summary |-> raw.fields.summary,
                 description |-> raw.fields.description,
                 status |-> [name |-> raw.fields.status.name],
                 created |-> raw.fields.created,
                 priority |-> raw.fields.priority,
                 issue_type |-> [name |-> raw.fields.issuetype.name]]]

\* resp.json::<JiraSearchResponse>().issues
deserialize(response) == [i \in 1..Len(response) |-> deserialize_issue(response[i])]

----------------------------------------------------------------------------
(* External edits of the vault *)

\* "\nmine"
NoteText == <<"\n","m","i","n","e">>
\* "\nsee %% USER_NOTES_START %%"
QuoteText == <<"\n","s","e","e"," ">> \o safe_area_delimiter
\* what the user can make of the region after the delimiter
UserTexts == {NoteText, QuoteText}

\* "old" : a note file written by hand, without the delimiter
LegacyContent == <<"o","l","d">>

----------------------------------------------------------------------------
(* Initial state of the file system and of main *)

Snapshot == [notes |-> notes, board |-> board]

EmptyVault == [notes |-> [k \in Keys |-> None], board |-> None]

MainInit ==
    /\ dir_exists = FALSE
    /\ notes = [k \in Keys |-> None]
    /\ board = None
    /\ pc = "idle"
    /\ err = ""
    /\ issues = <<>>
    /\ idx = 1
    /\ runs = 0
    /\ pre = EmptyVault
    /\ last = None
    /\ clean = [k \in Keys |-> None]

main_vars == <<dir_exists, notes, board, pc, err, issues, idx, runs, pre, last, clean>>

Init ==
    /\ MainInit
    /\ desc_in = None
    /\ desc_out = None

----------------------------------------------------------------------------
(* main *)

\* main: Config::from_env and JiraClient::new succeed, the fetch is next
main_start ==
    /\ pc = "idle"
    /\ runs < MaxRuns
    /\ pc' = "fetch"
    /\ err' = ""
    /\ runs' = runs + 1
    /\ issues' = <<>>
    /\ idx' = 1
    /\ pre' = Snapshot
    /\ last' = None
    /\ UNCHANGED <<dir_exists, notes, board, clean, desc_in, desc_out>>

\* main: Config::from_env or JiraClient::new fails, main returns the error
main_init_err ==
    /\ pc = "idle"
    /\ runs < MaxRuns
    /\ pc' = "failed"
    /\ err' = "init"
    /\ runs' = runs + 1
    /\ issues' = <<>>
    /\ idx' = 1
    /\ pre' = Snapshot
    /\ last' = None
    /\ UNCHANGED <<dir_exists, notes, board, clean, desc_in, desc_out>>

\* fetch_issues returns Ok(issues); main returns Ok(()) when the list is empty
fetch_issues_ok ==
    /\ pc = "fetch"
    /\ \E response \in Responses :
           /\ issues' = deserialize(response)
           /\ pc' = IF response = <<>> THEN "done" ELSE "sync"
    /\ idx' = 1
    /\ last' = None
    /\ UNCHANGED <<dir_exists, notes, board, err, runs, pre, clean,
                   desc_in, desc_out>>

\* fetch_issues returns an error (send, status, body), main returns it
fetch_issues_err ==
    /\ pc = "fetch"
    /\ pc' = "failed"
    /\ err' = "fetch"
    /\ last' = None
    /\ UNCHANGED <<dir_exists, notes, board, issues, idx, runs, pre, clean,
                   desc_in, desc_out>>

\* update_issue_file(&config, issue) returns Ok(()) for the issue at idx
update_issue_file_ok ==
    /\ pc = "sync"
    /\ LET issue == issues[idx]
           written == full_content(notes[issue.key], issue)
       IN  /\ notes' = [notes EXCEPT ![issue.key] = Some(written)]
           /\ last' = Some([key |-> issue.key, issue |-> issue,
                            before |-> notes[issue.key], after |-> written,
                            repeat |-> clean[issue.key] = Some(issue)])
           /\ clean' = [clean EXCEPT ![issue.key] = Some(issue)]
    /\ dir_exists' = TRUE
    /\ idx' = idx + 1
    /\ pc' = IF idx = Len(issues) THEN "board" ELSE "sync"
    /\ UNCHANGED <<board, err, issues, runs, pre, desc_in, desc_out>>

\* update_issue_file fails for the issue at idx, and as the tasks of all the
\* issues had been started together the later notes are written as well
update_issue_file_err_after_all ==
    /\ pc = "sync"
    /\ pc' = "failed"
    /\ err' = "note"
    /\ dir_exists' = TRUE
    /\ notes' = [k \in Keys |->
                    IF \E j \in (idx + 1)..Len(issues) : issues[j].key = k
                    THEN Some(full_content(notes[k],
                              issues[CHOOSE j \in (idx + 1)..Len(issues) : issues[j].key = k]))
                    ELSE notes[k]]
    /\ clean' = [clean EXCEPT ![issues[idx].key] = None]
    /\ last' = None
    /\ UNCHANGED <<board, issues, idx, runs, pre, desc_in, desc_out>>

\* update_issue_file returns an error for the issue at idx: create_dir_all,
\* read_to_string or write failed; main returns it.  A failed write leaves
\* the file as it was or truncated.
update_issue_file_err ==
    /\ pc = "sync"
    /\ pc' = "failed"
    /\ err' = "note"
    /\ LET key == issues[idx].key
       IN  \/ /\ ~dir_exists
              /\ UNCHANGED <<dir_exists, notes, clean>>
           \/ /\ notes[key] # None
              /\ UNCHANGED <<dir_exists, notes, clean>>
           \/ /\ dir_exists' = TRUE
              /\ UNCHANGED <<notes, clean>>
           \/ /\ dir_exists' = TRUE
              /\ notes' = [notes EXCEPT ![key] = Some(<<>>)]
              /\ clean' = [clean EXCEPT ![key] = None]
    /\ last' = None
    /\ UNCHANGED <<board, issues, idx, runs, pre, desc_in, desc_out>>

\* generate_kanban_board(&config, &issues) returns Ok(()), main returns Ok(())
generate_kanban_board_ok ==
    /\ pc = "board"
    /\ board' = Some(board_content(issues))
    /\ pc' = "done"
    /\ last' = None
    /\ UNCHANGED <<dir_exists, notes, err, issues, idx, runs, pre, clean,
                   desc_in, desc_out>>

\* generate_kanban_board returns the error of fs::write, main returns it; the
\* board file is as it was or truncated
generate_kanban_board_err ==
    /\ pc = "board"
    /\ pc' = "failed"
    /\ err' = "board"
    /\ \/ board' = board
       \/ board' = Some(<<>>)
    /\ last' = None
    /\ UNCHANGED <<dir_exists, notes, issues, idx, runs, pre, clean,
                   desc_in, desc_out>>

\* the process has ended, the vault is the user's until the next run
main_exit ==
    /\ pc \in {"done", "failed"}
    /\ pc' = "idle"
    /\ err' = ""
    /\ issues' = <<>>
    /\ idx' = 1
    /\ pre' = EmptyVault
    /\ last' = None
    /\ UNCHANGED <<dir_exists, notes, board, runs, clean, desc_in, desc_out>>

\* between runs the user rewrites the text after the first delimiter of a note
user_edits_notes ==
    /\ pc = "idle"
    /\ runs < MaxRuns
    /\ \E k \in Keys, text \in UserTexts :
           /\ notes[k] # None
           /\ split_once(notes[k][1], safe_area_delimiter) # None
           /\ notes' = [notes EXCEPT ![k] =
                  Some(Cat(<<split_once(notes[k][1], safe_area_delimiter)[1][1],
                             safe_area_delimiter, text>>))]
           /\ clean' = [clean EXCEPT ![k] = None]
    /\ last' = None
    /\ UNCHANGED <<dir_exists, board, pc, err, issues, idx, runs, pre, desc_in, desc_out>>

\* between runs a note file written without the delimiter is put in place
user_replaces_file ==
    /\ pc = "idle"
    /\ runs < MaxRuns
    /\ \E k \in Keys :
           /\ notes' = [notes EXCEPT ![k] = Some(LegacyContent)]
           /\ clean' = [clean EXCEPT ![k] = None]
    /\ dir_exists' = TRUE
    /\ last' = None
    /\ UNCHANGED <<board, pc, err, issues, idx, runs, pre, desc_in, desc_out>>

Next ==
    \/ main_start
    \/ main_init_err
    \/ fetch_issues_ok
    \/ fetch_issues_err
    \/ update_issue_file_ok
    \/ update_issue_file_err
    \/ generate_kanban_board_ok
    \/ generate_kanban_board_err
    \/ main_exit
    \/ user_edits_notes
    \/ user_replaces_file

Spec == Init /\ [][Next]_vars

----------------------------------------------------------------------------
(* Specification of the extraction check: the description of one issue *)

ExtractInit ==
    /\ MainInit
    /\ desc_in \in EmptyDescriptions
    /\ desc_out = None

\* the tracker side writes the description: one more node, up to MaxNodes
GrowDescription ==
    /\ desc_out = None
    /\ desc_in # None
    /\ desc_in[1].content # None
    /\ node_count(desc_in[1].content[1]) < MaxNodes
    /\ \E d \in 0..spine_depth(desc_in[1].content[1]) :
         \E node \in NewNodes(d) :
           desc_in' = Some(JiraADF(Some(append_at(desc_in[1].content[1], d, node))))
    /\ UNCHANGED <<desc_out, main_vars>>

\* update_issue_file computes the description of the issue
RenderDescription ==
    /\ desc_out = None
    /\ desc_out' = Some(description_text(desc_in))
    /\ UNCHANGED <<desc_in, main_vars>>

ExtractNext == GrowDescription \/ RenderDescription

SpecExtract == ExtractInit /\ [][ExtractNext]_vars

----------------------------------------------------------------------------
(* Vocabulary of the properties *)

\* the note contains the delimiter
HasDelimiter(text) == find(text, safe_area_delimiter) # 0

\* the text strictly after the first delimiter of a note that has one
AfterFirstDelimiter(text) ==
    SubSeq(text, find(text, safe_area_delimiter) + Len(safe_area_delimiter), Len(text))

\* the machine-owned region written for an issue: all that precedes the
\* delimiter the writer emits
MachineRegion(issue) == frontmatter(issue) \o body_head(issue)

\* u is the final part of s
IsSuffix(u, s) == Len(u) <= Len(s) /\ SubSeq(s, Len(s) - Len(u) + 1, Len(s)) = u

RECURSIVE LinesOf(_)
\* the lines of a text
LinesOf(text) ==
    IF text = <<>>
    THEN <<>>
    ELSE LET nl == find(text, <<"\n">>)
         IN  IF nl = 0
             THEN <<text>>
             ELSE <<SubSeq(text, 1, nl - 1)>> \o LinesOf(SubSeq(text, nl + 1, Len(text)))

\* the status names of the "## " headings of a board, in the order of the file
SectionNames(text) ==
    LET IsHeading(line) == starts_with_at(line, board_h2, 1)
        headings == SelectSeq(LinesOf(text), IsHeading)
    IN  [i \in 1..Len(headings) |-> SubSeq(headings[i], Len(board_h2) + 1, Len(headings[i]))]

\* the issue keys a board links to
BoardKeys(text) ==
    {k \in Keys : find(text, Cat(<<board_item, k, board_item_end>>)) # 0}

\* the keys and the status names of the issues of this run
IssueKeys == {issues[i].key : i \in 1..Len(issues)}
IssueStatuses == {issues[i].fields.status.name : i \in 1..Len(issues)}

\* the status category the tracker gives a status name
CategoryOf(name) ==
    (CHOOSE r \in ResponsePool : r.fields.status.name = name).fields.status.statusCategory.key

\* the rank table of the board specification
RankOf(name) ==
    CASE CategoryOf(name) = "new" -> 0
      [] CategoryOf(name) = "indeterminate" -> 1
      [] CategoryOf(name) = "done" -> 2
      [] OTHER -> 3

\* (rank, name) order of two status names
RankNameLess(a, b) ==
    \/ RankOf(a) < RankOf(b)
    \/ RankOf(a) = RankOf(b) /\ str_lt(a, b)

\* the suffix the extractor specification fixes for a node kind
KindSuffix(kind) ==
    IF kind = "paragraph" THEN <<"\n", "\n">>
    ELSE IF kind = "bulletList" \/ kind = "orderedList" THEN <<"\n">>
    ELSE IF kind = "listItem" THEN <<"\n", "-", " ">>
    ELSE <<>>

RECURSIVE Flat(_)
RECURSIVE FlatAll(_, _)

\* the text of a node: its payload, its children in order, its kind's suffix
Flat(node) ==
    (IF node.text = None THEN <<>> ELSE node.text[1])
    \o (IF node.content = None THEN <<>> ELSE FlatAll(node.content[1], <<>>))
    \o KindSuffix(node.node_type)

\* the texts of the nodes of a sequence, each followed by sep
FlatAll(nodes, sep) ==
    IF nodes = <<>> THEN <<>> ELSE Flat(Head(nodes)) \o sep \o FlatAll(Tail(nodes), sep)

\* the top-level nodes of a description that is a document
TopLevel(description) ==
    IF description[1].content = None THEN <<>> ELSE description[1].content[1]

\* "Hello World"
HelloWorld == <<"H","e","l","l","o"," ","W","o","r","l","d">>

\* a document of one paragraph that holds "Hello " and "World"
OneParagraph == Some(JiraADF(Some(<<Paragraph(<<Hello, World>>)>>)))

\* a document of two paragraphs, "Hello " and "World"
TwoParagraphs == Some(JiraADF(Some(<<Paragraph(<<Hello>>), Paragraph(<<World>>)>>)))

----------------------------------------------------------------------------
(* Properties *)

\* C1: syncing an issue again with identical issue data and no edit in
\* between leaves the note file byte-identical to what the first sync wrote.
C1_MergeIdempotent ==
    (last # None /\ last[1].repeat) => Some(last[1].after) = last[1].before

\* C2: when the note has the delimiter followed by user text U', the sync
\* writes exactly machine region + delimiter + U', nothing in between.
C2_Preservation ==
    (last # None /\ last[1].before # None /\ HasDelimiter(last[1].before[1]))
    => last[1].after = Cat(<<MachineRegion(last[1].issue), safe_area_delimiter,
                             AfterFirstDelimiter(last[1].before[1])>>)

\* C3: after every write the delimiter occurs exactly once in the file, at
\* the boundary between the machine region and the user region.
C3_DelimiterOnce ==
    last # None
    => /\ Cardinality(occurrences(last[1].after, safe_area_delimiter)) = 1
       /\ find(last[1].after, safe_area_delimiter) = Len(MachineRegion(last[1].issue)) + 1

\* C4: a note file that exists but lacks the delimiter is overwritten with
\* machine region + delimiter + the default user region, which is exactly
\* what is written when no file exists; nothing of the prior file survives.
C4_FallbackOnMalformed ==
    (last # None /\ last[1].before # None /\ ~HasDelimiter(last[1].before[1]))
    => /\ last[1].after = full_content(None, last[1].issue)
       /\ last[1].after = Cat(<<MachineRegion(last[1].issue), safe_area_delimiter,
                                body_newline, default_user_notes>>)
       /\ last[1].before[1] = LegacyContent => find(last[1].after, LegacyContent) = 0

\* C4 witness: a hand-written file without the delimiter has been synced over
C4_Witness ==
    /\ last # None
    /\ last[1].before = Some(LegacyContent)
    /\ notes[last[1].key] = Some(last[1].after)

\* C5 as stated: the sections of the board are in ascending (rank, name)
\* order, the rank from the status category (new 0, indeterminate 1, done 2,
\* else 3); "To Do" (new) precedes "Done" (done).
C5_RankOrder ==
    (pc = "done" /\ issues # <<>>)
    => /\ board # None
       /\ LET names == SectionNames(board[1])
          IN  \A i, j \in 1..Len(names) : i < j => RankNameLess(names[i], names[j])

\* C5 as amended: the sections of the board are one per status of the issues,
\* in ascending byte-wise order of the status name, whatever the category;
\* so "Done" precedes "To Do".
C5_NameOrder ==
    (pc = "done" /\ issues # <<>>)
    => /\ board # None
       /\ LET names == SectionNames(board[1])
          IN  /\ {names[i] : i \in 1..Len(names)} = IssueStatuses
              /\ \A i, j \in 1..Len(names) : i < j => str_lt(names[i], names[j])

\* C5 witness: a board written for a "To Do" issue followed by a "Done" issue
C5_Witness ==
    /\ pc = "done"
    /\ Len(issues) = 2
    /\ issues[1].fields.status.name = ToDo
    /\ issues[2].fields.status.name = Done
    /\ board # None
    /\ SectionNames(board[1]) = <<Done, ToDo>>

\* C6 as stated: the extracted text is the trimmed pre-order concatenation of
\* the text payloads with only each node's kind suffix appended after its
\* children, and no other character.
C6_OnlyKindSuffixes ==
    (desc_out # None /\ desc_in # None /\ trim(FlatAll(TopLevel(desc_in), <<>>)) # <<>>)
    => desc_out[1] = trim(FlatAll(TopLevel(desc_in), <<>>))

\* C6 as amended: the extracted text is the trimmed pre-order concatenation of
\* the text payloads with each node's kind suffix appended after its children
\* and one more newline after each top-level node (the placeholder when that
\* is empty); one paragraph of "Hello " and "World" gives "Hello World", two
\* consecutive top-level paragraphs are separated by three newlines.
C6_KindSuffixesAndTopLevelNewline ==
    (desc_out # None /\ desc_in # None)
    => /\ desc_out[1] =
              IF trim(FlatAll(TopLevel(desc_in), <<"\n">>)) = <<>>
              THEN no_description_provided
              ELSE trim(FlatAll(TopLevel(desc_in), <<"\n">>))
       /\ desc_in = OneParagraph => desc_out[1] = HelloWorld
       /\ desc_in = TwoParagraphs
              => desc_out[1] = Cat(<<Hello, <<"\n", "\n", "\n">>, World>>)

\* C6 witness: the description of two paragraphs has been extracted
C6_Witness ==
    /\ desc_in = TwoParagraphs
    /\ desc_out = Some(Cat(<<Hello, <<"\n", "\n", "\n">>, World>>))

\* C7: the description rendered into the note is never empty, and for an
\* absent description, a document without content and a tree whose text is
\* only whitespace it is "No description provided.".
C7_ExtractionTotal ==
    desc_out # None
    => /\ desc_out[1] # <<>>
       /\ (desc_in = None \/ trim(FlatAll(TopLevel(desc_in), <<>>)) = <<>>)
              => desc_out[1] = no_description_provided

\* C8: after every run of main that completes without error the board file
\* lists exactly the keys of the issues of that run, also when the list is
\* empty, and no key that only an earlier run returned (a board that was
\* never written lists none).
C8_BoardRegenerated ==
    pc = "done" => (IF board = None THEN {} ELSE BoardKeys(board[1])) = IssueKeys

\* C9: when the fetch fails no note and no board is created or modified; when
\* the note of the i-th issue fails the notes of the issues before it hold
\* their complete new content and the notes of the issues after it and the
\* board are as they were before the run.
C9_AbortOnFirstFailure ==
    /\ (pc = "failed" /\ err = "fetch")
           => (notes = pre.notes /\ board = pre.board)
    /\ (pc = "failed" /\ err = "note")
           => /\ board = pre.board
              /\ \A j \in 1..Len(issues) :
                     /\ j < idx => notes[issues[j].key]
                                     = Some(full_content(pre.notes[issues[j].key], issues[j]))
                     /\ j > idx => notes[issues[j].key] = pre.notes[issues[j].key]

\* C9 witness: the run failed at the second note after writing the first
C9_Witness ==
    /\ pc = "failed"
    /\ err = "note"
    /\ idx = 2
    /\ Len(issues) = 2
    /\ notes[issues[1].key] # pre.notes[issues[1].key]
    /\ pre.board # None

\* C10: whenever the note has the delimiter before a sync, the text strictly
\* after its first delimiter is, unchanged and complete, the final part of
\* the file after the sync.
C10_UserTextKept ==
    (last # None /\ last[1].before # None)
    => (HasDelimiter(last[1].before[1])
           => IsSuffix(AfterFirstDelimiter(last[1].before[1]), last[1].after))

\* C10 witness: a note whose user region was edited has been synced with
\* other issue data than it was written from
C10_Witness ==
    /\ last # None
    /\ last[1].before # None
    /\ HasDelimiter(last[1].before[1])
    /\ AfterFirstDelimiter(last[1].before[1]) = NoteText
    /\ ~starts_with_at(last[1].before[1], frontmatter(last[1].issue), 1)
    /\ notes[last[1].key] = Some(last[1].after)

====
